---- MODULE Spec2Model ----
(***************************************************************************)
(* Model of the named-logger registry of awesome-log (logger.go,           *)
(* config.go): NewLogger, GetLogger and Init called by concurrent          *)
(* goroutines, the registry map guarded by loggerMutex, the unguarded      *)
(* globalLogger pointer, and the configuration built by options.           *)
(***************************************************************************)
EXTENDS Integers, Sequences, FiniteSets, TLC

(* ------------------------------ bounds --------------------------------- *)
\* number of goroutines calling the package concurrently
NumThreads == 2
\* total number of package-level calls made in one behaviour
MaxCalls == 3

\* calls made by the single goroutine of the sequential specification
MaxSeqCalls == 2
\* log calls made in one behaviour
MaxLogs == 1
\* calls made in one behaviour of the fairly scheduled program
MaxFairCalls == 2

Threads == 1..NumThreads
\* logger names used by the callers; "" is the anonymous (global) logger
Names == {"", "a", "b"}
\* the names the concurrent goroutines contend for
CallNames == {"", "a"}
\* the nil pointer; Logger pointers are indices into heap, Config pointers
\* indices into configs
Nil == 0

(* --------------------------- config.go --------------------------------- *)
\* strings that are taken apart by the code are sequences of characters
DefaultFilename == <<"l","o","g","s","/","a","p","p",".","l","o","g">>
RotationFilename == <<"v","a","r","/","t",".","l","o","g">>

DefaultConfig ==
  [ Level        |-> "info",
    Format       |-> "console",
    WriteToFile  |-> FALSE,
    EnableColor  |-> TRUE,
    FileConfig   |-> [ Filename   |-> DefaultFilename,
                       MaxSize    |-> 100,
                       MaxAge     |-> 7,
                       MaxBackups |-> 10,
                       Compress   |-> TRUE,
                       Format     |-> "json" ],
    RecordCaller |-> TRUE,
    TimeFormat   |-> "2006-01-02 15:04:05.000" ]

WithLevel(level) == [kind |-> "WithLevel", arg |-> level]
WithFormat(format) == [kind |-> "WithFormat", arg |-> format]
WithTimeFormat(format) == [kind |-> "WithTimeFormat", arg |-> format]
WithColor(enable) == [kind |-> "WithColor", arg |-> enable]
WithCaller(enable) == [kind |-> "WithCaller", arg |-> enable]
WithFileRotation(filename, maxSize, maxAge, maxBackups, compress) ==
  [kind |-> "WithFileRotation",
   arg  |-> [ Filename   |-> filename,
              MaxSize    |-> maxSize,
              MaxAge     |-> maxAge,
              MaxBackups |-> maxBackups,
              Compress   |-> compress,
              Format     |-> "json" ]]
WithFileFormat(format) == [kind |-> "WithFileFormat", arg |-> format]
\* the option copies the pointed-to Config into the target (*c = *config)
WithFullConfig(config) == [kind |-> "WithFullConfig", arg |-> config]

\* variant: WithFullConfig rebinds its parameter (c = config) instead of
\* copying through it (*c = *config), so the caller's Config is untouched
ApplyOption_FullConfigRebinds(c, opt) ==
  CASE opt.kind = "WithLevel"        -> [c EXCEPT !.Level = opt.arg]
    [] opt.kind = "WithFormat"       -> [c EXCEPT !.Format = opt.arg]
    [] opt.kind = "WithTimeFormat"   -> [c EXCEPT !.TimeFormat = opt.arg]
    [] opt.kind = "WithColor"        -> [c EXCEPT !.EnableColor = opt.arg]
    [] opt.kind = "WithCaller"       -> [c EXCEPT !.RecordCaller = opt.arg]
    [] opt.kind = "WithFileRotation" -> [c EXCEPT !.WriteToFile = TRUE,
                                                  !.FileConfig = opt.arg]
    [] opt.kind = "WithFileFormat"   -> [c EXCEPT !.FileConfig.Format = opt.arg]
    [] opt.kind = "WithFullConfig"   -> c

\* variant: WithFileRotation keeps the file format that is already set
ApplyOption_RotationKeepsFormat(c, opt) ==
  CASE opt.kind = "WithLevel"        -> [c EXCEPT !.Level = opt.arg]
    [] opt.kind = "WithFormat"       -> [c EXCEPT !.Format = opt.arg]
    [] opt.kind = "WithTimeFormat"   -> [c EXCEPT !.TimeFormat = opt.arg]
    [] opt.kind = "WithColor"        -> [c EXCEPT !.EnableColor = opt.arg]
    [] opt.kind = "WithCaller"       -> [c EXCEPT !.RecordCaller = opt.arg]
    [] opt.kind = "WithFileRotation" ->
         [c EXCEPT !.WriteToFile = TRUE,
                   !.FileConfig = [opt.arg EXCEPT !.Format = c.FileConfig.Format]]
    [] opt.kind = "WithFileFormat"   -> [c EXCEPT !.FileConfig.Format = opt.arg]
    [] opt.kind = "WithFullConfig"   -> opt.arg

\* opt(config): the effect of calling one option function on a Config
ApplyOption(c, opt) ==
  CASE opt.kind = "WithLevel"        -> [c EXCEPT !.Level = opt.arg]
    [] opt.kind = "WithFormat"       -> [c EXCEPT !.Format = opt.arg]
    [] opt.kind = "WithTimeFormat"   -> [c EXCEPT !.TimeFormat = opt.arg]
    [] opt.kind = "WithColor"        -> [c EXCEPT !.EnableColor = opt.arg]
    [] opt.kind = "WithCaller"       -> [c EXCEPT !.RecordCaller = opt.arg]
    [] opt.kind = "WithFileRotation" -> [c EXCEPT !.WriteToFile = TRUE,
                                                  !.FileConfig = opt.arg]
    [] opt.kind = "WithFileFormat"   -> [c EXCEPT !.FileConfig.Format = opt.arg]
    [] opt.kind = "WithFullConfig"   -> opt.arg

\* for _, opt := range opts { opt(config) }
RECURSIVE ApplyOpts(_, _)
ApplyOpts(c, opts) ==
  IF opts = <<>> THEN c
  ELSE ApplyOpts(ApplyOption(c, Head(opts)), Tail(opts))

\* the option lists the callers pass to NewLogger and Init
OptLists ==
  << <<>>,
     <<WithLevel("debug"),
       WithFileRotation(RotationFilename, 1, 1, 3, TRUE),
       WithFileFormat("console")>> >>

(* --------------------------- logger.go --------------------------------- *)
\* filepath.Ext: the suffix starting at the last dot of the last path element
RECURSIVE ExtFrom(_, _)
ExtFrom(path, i) ==
  IF i = 0 \/ path[i] = "/" THEN <<>>
  ELSE IF path[i] = "." THEN SubSeq(path, i, Len(path))
  ELSE ExtFrom(path, i - 1)

\* variant: the extension starts at the last dot of the whole path, path
\* separators are not looked at
Ext_LastDotOfPath(path) ==
  IF \A i \in DOMAIN path : path[i] # "." THEN <<>>
  ELSE SubSeq(path, CHOOSE i \in DOMAIN path :
                      path[i] = "." /\ \A j \in DOMAIN path : path[j] = "." => j <= i,
              Len(path))

Ext(path) == ExtFrom(path, Len(path))

\* the characters of a logger name
NameChars(n) == IF n = "" THEN <<>> ELSE <<n>>

\* variant: every logger writes to the configured file, whatever its name
DeriveFilename_NameIgnored(filename, n) == filename

\* the log file of a named logger: "." + name goes before the extension
DeriveFilename(filename, n) ==
  IF n # ""
  THEN SubSeq(filename, 1, Len(filename) - Len(Ext(filename)))
         \o <<".">> \o NameChars(n) \o Ext(filename)
  ELSE filename

\* the zapcore levels levelMap names
DebugLevel == -1
InfoLevel == 0
WarnLevel == 1
ErrorLevel == 2
FatalLevel == 5

\* variant: a level name that levelMap lacks resolves to the lowest level
getZapLevel_UnknownIsDebug(level) ==
  CASE level = "debug" -> DebugLevel
    [] level = "info"  -> InfoLevel
    [] level = "warn"  -> WarnLevel
    [] level = "error" -> ErrorLevel
    [] level = "fatal" -> FatalLevel
    [] OTHER           -> DebugLevel

\* levelMap and getZapLevel: a lookup by the exact string, InfoLevel on a miss
getZapLevel(level) ==
  CASE level = "debug" -> DebugLevel
    [] level = "info"  -> InfoLevel
    [] level = "warn"  -> WarnLevel
    [] level = "error" -> ErrorLevel
    [] level = "fatal" -> FatalLevel
    [] OTHER           -> InfoLevel

\* variant: every format string selects the JSON encoder
getEncoder_AlwaysJSON(format) == "json"

\* variant: the test for "json" is lost, every format selects the console
\* encoder
getEncoder_AlwaysConsole(format) == "console"

\* getEncoder: the JSON encoder for "json", the console encoder otherwise
getEncoder(format) == IF format = "json" THEN "json" ELSE "console"

consoleCore(config) ==
  [sink |-> "stdout", encoder |-> "console", level |-> getZapLevel(config.Level),
   filename |-> <<>>]

\* variant: the file core is built at InfoLevel, not at the configured level
fileCore_InfoLevel(config, n) ==
  [sink |-> "file", encoder |-> getEncoder(config.FileConfig.Format),
   level |-> InfoLevel,
   filename |-> DeriveFilename(config.FileConfig.Filename, n)]

\* zapcore.NewCore(getEncoder(FileConfig.Format), writer, getZapLevel(Level))
fileCore(config, n) ==
  [sink |-> "file", encoder |-> getEncoder(config.FileConfig.Format),
   level |-> getZapLevel(config.Level),
   filename |-> DeriveFilename(config.FileConfig.Filename, n)]

\* the cores NewLogger tees together for a configuration
Cores(config, n) ==
  IF config.WriteToFile THEN <<consoleCore(config), fileCore(config, n)>>
  ELSE <<consoleCore(config)>>

\* logger := &Logger{config: config}: the Logger NewLogger builds holds the
\* pointer p to its Config object; the cores are built from the fields read
\* through that pointer, config being the contents of *p
MakeLogger(n, p, config) ==
  [name |-> n, config |-> p, cores |-> Cores(config, n)]

\* outcomes of os.MkdirAll and os.OpenFile during construction
IOOutcomes == {"ok", "mkdirFail", "openFail"}

\* variant: the handle of the probing os.OpenFile is never closed
ProbeHandles_NotClosed(filename, o) ==
  IF o = "ok" THEN {[file |-> filename, owner |-> Nil]} ELSE {}

\* file, err := os.OpenFile(...); ...; file.Close(): the handles construction
\* leaves open; the lumberjack writer opens its file at the first write
ProbeHandles(filename, o) == {}

\* variant: the lookup result is not tested, every call sees the name as new
Exists_NeverFound(m, n) == FALSE

\* if logger, exists := loggerMap[name]; exists
Exists(m, n) == m[n] # Nil

\* variant: the error of os.OpenFile is dropped, only MkdirAll is checked
SinkFails_OpenErrorIgnored(o) == o = "mkdirFail"

\* if err := os.MkdirAll(...); err != nil  /  file, err := os.OpenFile(...);
\* if err != nil: construction stops on either error
SinkFails(o) == o # "ok"

\* variant: Init does not test the pointer NewLogger returned
InitFails_NotTested(l) == FALSE

\* if logger == nil { return fmt.Errorf(...) } in Init
InitFails(l) == l = Nil

VARIABLES
  loggerMap,     \* name -> *Logger (Nil when the key is absent)
  globalLogger,  \* *Logger
  heap,          \* the Logger values that were built, indexed by pointer
  configs,       \* the Config objects the Loggers hold, indexed by *Config
  writer,        \* loggerMutex: the goroutine holding the write lock, or 0
  readers,       \* loggerMutex: the goroutines holding the read lock
  pc,            \* per goroutine: position in the code
  op,            \* per goroutine: the package function it called last
  name,          \* per goroutine: the name argument
  opts,          \* per goroutine: the opts passed to NewLogger
  cfg,           \* per goroutine: the local config of NewLogger
  args,          \* per goroutine: the opts argument of the call it made
  ret,           \* per goroutine: the *Logger returned by NewLogger/GetLogger
  initErr,       \* per goroutine: the result of Init: "none", "nil", "error"
  outcome,       \* per goroutine: how its NewLogger ended: "none", "existing",
                 \*   "built", "failed"
  sawGlobal,     \* per goroutine: the globalLogger value GetLogger read
  io,            \* per goroutine: what MkdirAll/OpenFile did in its NewLogger:
                 \*   "none" (not run), "ok", "mkdirFail", "openFail"
  constructed,   \* history: name -> number of Logger instances built for it
  failed,        \* history: name -> number of constructions for it that
                 \*   stopped on an error and built nothing
  returned,      \* history: name -> the non-nil pointers returned for it
  firstOpts,     \* history: name -> the opts of the NewLogger that first
                 \*   stored a Logger for it
  initsOK,       \* history: number of Init calls that returned nil
  calls,         \* history: number of calls started
  logs,          \* history: the number of log calls made and the last one,
                 \*   [n, fn, via, logger]
  written,       \* the records the sinks received, [file, from, level]
  halted,        \* "no", or how the process ended: "panic", "exit"
  handles,       \* the open file handles, [file, owner]: owner is the
                 \*   Logger whose writer holds it, Nil when nothing holds it
  pure           \* input and result of a function evaluated on its own

vars == <<loggerMap, globalLogger, heap, configs, writer, readers, pc, op,
          name, opts,          cfg, args, ret, initErr, outcome, sawGlobal, io, constructed,
          failed, returned, firstOpts, initsOK, calls, logs, written,
          halted, handles, pure>>

\* l.config dereferenced: the contents of the Config object Logger l holds
ConfigOf(l) == configs[heap[l].config]

\* what the registry operations leave alone
aux == <<logs, written, halted, handles, pure>>

\* no function is being evaluated on its own
NoPure ==
  [kind |-> "none", path |-> <<>>, name |-> "", level |-> "", optIdx |-> <<>>,
   done |-> FALSE, outPath |-> <<>>, outLevel |-> 0, outConfig |-> DefaultConfig]

\* the package variables at program start, no goroutine has called anything
InitRegistry ==
  /\ loggerMap = [n \in Names |-> Nil]
  /\ globalLogger = Nil
  /\ heap = <<>>
  /\ configs = <<>>
  /\ writer = 0
  /\ readers = {}
  /\ pc = [t \in Threads |-> "idle"]
  /\ op = [t \in Threads |-> "none"]
  /\ name = [t \in Threads |-> ""]
  /\ opts = [t \in Threads |-> <<>>]
  /\ cfg = [t \in Threads |-> DefaultConfig]
  /\ args = [t \in Threads |-> <<>>]
  /\ ret = [t \in Threads |-> Nil]
  /\ initErr = [t \in Threads |-> "none"]
  /\ outcome = [t \in Threads |-> "none"]
  /\ sawGlobal = [t \in Threads |-> Nil]
  /\ io = [t \in Threads |-> "none"]
  /\ constructed = [n \in Names |-> 0]
  /\ failed = [n \in Names |-> 0]
  /\ returned = [n \in Names |-> {}]
  /\ firstOpts = [n \in Names |-> <<>>]
  /\ initsOK = 0
  /\ calls = 0
  /\ logs = [n |-> 0, fn |-> "none", via |-> "none", logger |-> Nil]
  /\ written = {}
  /\ halted = "no"
  /\ handles = {}

Init == InitRegistry /\ pure = NoPure

\* a goroutine is between calls
AtRest(t) == pc[t] \in {"idle", "done"}

\* start of a call: the per-call locals are fresh
Begin(t, o, n, as, os, next) ==
  /\ AtRest(t)
  /\ UNCHANGED aux
  /\ calls < MaxCalls
  /\ calls' = calls + 1
  /\ op' = [op EXCEPT ![t] = o]
  /\ name' = [name EXCEPT ![t] = n]
  /\ args' = [args EXCEPT ![t] = as]
  /\ opts' = [opts EXCEPT ![t] = os]
  /\ ret' = [ret EXCEPT ![t] = Nil]
  /\ initErr' = [initErr EXCEPT ![t] = "none"]
  /\ outcome' = [outcome EXCEPT ![t] = "none"]
  /\ sawGlobal' = [sawGlobal EXCEPT ![t] = Nil]
  /\ io' = [io EXCEPT ![t] = "none"]
  /\ pc' = [pc EXCEPT ![t] = next]
  /\ UNCHANGED <<loggerMap, globalLogger, heap, configs, writer, readers, cfg,
                 constructed, failed, returned, firstOpts, initsOK>>

\* a caller invokes NewLogger(n, opts...)
CallNewLogger(t) ==
  \E n \in CallNames, i \in 1..Len(OptLists) :
    Begin(t, "NewLogger", n, OptLists[i], OptLists[i], "NL_lock")

\* a caller invokes GetLogger(n)
CallGetLogger(t) ==
  \E n \in CallNames : Begin(t, "GetLogger", n, <<>>, <<>>, "GL_rlock")

\* a caller invokes Init(opts...): the local config is built from the
\* defaults and the options, and Init calls NewLogger("", WithFullConfig(config))
CallInit(t) ==
  \E i \in 1..Len(OptLists) :
    LET config == ApplyOpts(DefaultConfig, OptLists[i]) IN
    Begin(t, "Init", "", OptLists[i], <<WithFullConfig(config)>>, "NL_lock")

\* where NewLogger returns to
AfterNewLogger(t) == IF op[t] = "Init" THEN "IN_result" ELSE "done"

\* the pointers NewLogger and GetLogger handed to their callers
Returned(t, l) ==
  IF l # Nil /\ op[t] # "Init"
  THEN [returned EXCEPT ![name[t]] = @ \cup {l}]
  ELSE returned

\* variant: Lock() returns at once, whoever holds the mutex
NL_Lock_NotExclusive(t) ==
  /\ pc[t] = "NL_lock"
  /\ UNCHANGED aux
  /\ writer' = t
  /\ pc' = [pc EXCEPT ![t] = "NL_check"]
  /\ UNCHANGED <<loggerMap, globalLogger, heap, configs, readers, op, name, opts, cfg,
                 args, ret, initErr, outcome, sawGlobal, io, constructed,
                 failed, returned, firstOpts, initsOK, calls>>

\* loggerMutex.Lock()
NL_Lock(t) ==
  /\ pc[t] = "NL_lock"
  /\ UNCHANGED aux
  /\ writer = 0
  /\ readers = {}
  /\ writer' = t
  /\ pc' = [pc EXCEPT ![t] = "NL_check"]
  /\ UNCHANGED <<loggerMap, globalLogger, heap, configs, readers, op, name, opts, cfg,
                 args, ret, initErr, outcome, sawGlobal, io, constructed,
                 failed, returned, firstOpts, initsOK, calls>>

\* variant: a new logger starts from the global logger's config when there
\* is one, instead of DefaultConfig()
NL_Check_InheritsGlobal(t) ==
  /\ pc[t] = "NL_check"
  /\ UNCHANGED aux
  /\ IF Exists(loggerMap, name[t])
     THEN /\ writer' = 0
          /\ ret' = [ret EXCEPT ![t] = loggerMap[name[t]]]
          /\ outcome' = [outcome EXCEPT ![t] = "existing"]
          /\ returned' = Returned(t, loggerMap[name[t]])
          /\ pc' = [pc EXCEPT ![t] = AfterNewLogger(t)]
          /\ opts' = [opts EXCEPT ![t] = <<>>]
          /\ UNCHANGED cfg
     ELSE /\ cfg' = [cfg EXCEPT ![t] = ApplyOpts(IF globalLogger # Nil
                                             THEN ConfigOf(globalLogger)
                                             ELSE DefaultConfig, opts[t])]
          /\ pc' = [pc EXCEPT ![t] = "NL_build"]
          /\ UNCHANGED <<writer, ret, outcome, returned, opts>>
  /\ UNCHANGED <<loggerMap, globalLogger, heap, configs, readers, op, name, args,
                 initErr, sawGlobal, io, constructed, failed, firstOpts,
                 initsOK, calls>>

\* the existence check under the lock; when the name is new the config is
\* built from the defaults and the options (the locals opts and config are
\* dead once NewLogger returns and are reset then)
NL_Check(t) ==
  /\ pc[t] = "NL_check"
  /\ UNCHANGED aux
  /\ IF Exists(loggerMap, name[t])
     THEN /\ writer' = 0
          /\ ret' = [ret EXCEPT ![t] = loggerMap[name[t]]]
          /\ outcome' = [outcome EXCEPT ![t] = "existing"]
          /\ returned' = Returned(t, loggerMap[name[t]])
          /\ pc' = [pc EXCEPT ![t] = AfterNewLogger(t)]
          /\ opts' = [opts EXCEPT ![t] = <<>>]
          /\ UNCHANGED cfg
     ELSE /\ cfg' = [cfg EXCEPT ![t] = ApplyOpts(DefaultConfig, opts[t])]
          /\ pc' = [pc EXCEPT ![t] = "NL_build"]
          /\ UNCHANGED <<writer, ret, outcome, returned, opts>>
  /\ UNCHANGED <<loggerMap, globalLogger, heap, configs, readers, op, name, args,
                 initErr, sawGlobal, io, constructed, failed, firstOpts,
                 initsOK, calls>>

\* variant: a logger made by GetLogger keeps the pointer it was handed, the
\* global logger's Config object, instead of an object of its own
StoredConfig_SharesGlobal(t) ==
  IF op[t] = "GetLogger" /\ sawGlobal[t] # Nil
  THEN heap[sawGlobal[t]].config
  ELSE Len(configs) + 1

\* config := DefaultConfig() returns &Config{...}, a newly allocated object;
\* the options write into it (opt(config)) and its address is what the
\* Logger stores
StoredConfig(t) == Len(configs) + 1

\* construction under the lock: the cores are built; with file output the
\* directory is created and the file opened, and either can fail (unlock,
\* return nil); otherwise the zap logger is created, the Logger stored in
\* the map and the lock released
NL_Build(t) ==
  /\ pc[t] = "NL_build"
  /\ UNCHANGED <<logs, written, halted, pure>>
  /\ \E o \in (IF cfg[t].WriteToFile THEN IOOutcomes ELSE {"ok"}) :
       /\ io' = [io EXCEPT ![t] = IF cfg[t].WriteToFile THEN o ELSE "none"]
       /\ handles' =
            IF cfg[t].WriteToFile
            THEN handles \cup
                   ProbeHandles(DeriveFilename(cfg[t].FileConfig.Filename,
                                               name[t]), o)
            ELSE handles
       /\ IF cfg[t].WriteToFile /\ SinkFails(o)
          THEN /\ ret' = [ret EXCEPT ![t] = Nil]
               /\ outcome' = [outcome EXCEPT ![t] = "failed"]
               /\ failed' = [failed EXCEPT ![name[t]] = @ + 1]
               /\ UNCHANGED <<loggerMap, heap, configs, returned, constructed, firstOpts>>
          ELSE /\ LET l == Len(heap) + 1
                        p == StoredConfig(t)
                    IN
                    /\ configs' = [i \in 1..(IF p > Len(configs) THEN p
                                             ELSE Len(configs)) |->
                                     IF i = p THEN cfg[t] ELSE configs[i]]
                    /\ heap' = Append(heap, MakeLogger(name[t], p, cfg[t]))
                    /\ loggerMap' = [loggerMap EXCEPT ![name[t]] = l]
                    /\ ret' = [ret EXCEPT ![t] = l]
                    /\ returned' = Returned(t, l)
               /\ constructed' = [constructed EXCEPT ![name[t]] = @ + 1]
               /\ firstOpts' = IF constructed[name[t]] = 0
                               THEN [firstOpts EXCEPT ![name[t]] = opts[t]]
                               ELSE firstOpts
               /\ outcome' = [outcome EXCEPT ![t] = "built"]
               /\ UNCHANGED failed
  /\ writer' = 0
  /\ cfg' = [cfg EXCEPT ![t] = DefaultConfig]
  /\ opts' = [opts EXCEPT ![t] = <<>>]
  /\ pc' = [pc EXCEPT ![t] = AfterNewLogger(t)]
  /\ UNCHANGED <<globalLogger, readers, op, name, args, initErr, sawGlobal,
                 initsOK, calls>>

\* loggerMutex.RLock()
GL_RLock(t) ==
  /\ pc[t] = "GL_rlock"
  /\ UNCHANGED aux
  /\ writer = 0
  /\ readers' = readers \cup {t}
  /\ pc' = [pc EXCEPT ![t] = "GL_check"]
  /\ UNCHANGED <<loggerMap, globalLogger, heap, configs, writer, op, name, opts, cfg,
                 args, ret, initErr, outcome, sawGlobal, io, constructed,
                 failed, returned, firstOpts, initsOK, calls>>

\* variant: on a miss the read lock is kept while NewLogger is called
GL_Check_KeepsRLock(t) ==
  /\ pc[t] = "GL_check"
  /\ UNCHANGED aux
  /\ IF Exists(loggerMap, name[t])
     THEN /\ readers' = readers \ {t}
          /\ ret' = [ret EXCEPT ![t] = loggerMap[name[t]]]
          /\ returned' = Returned(t, loggerMap[name[t]])
          /\ pc' = [pc EXCEPT ![t] = "done"]
     ELSE /\ pc' = [pc EXCEPT ![t] = "GL_global"]
          /\ UNCHANGED <<readers, ret, returned>>
  /\ UNCHANGED <<loggerMap, globalLogger, heap, configs, writer, op, name, opts, cfg,
                 args, initErr, outcome, sawGlobal, io, constructed, failed,
                 firstOpts, initsOK, calls>>

\* the lookup under the read lock, and RUnlock on both paths
GL_Check(t) ==
  /\ pc[t] = "GL_check"
  /\ UNCHANGED aux
  /\ readers' = readers \ {t}
  /\ IF Exists(loggerMap, name[t])
     THEN /\ ret' = [ret EXCEPT ![t] = loggerMap[name[t]]]
          /\ returned' = Returned(t, loggerMap[name[t]])
          /\ pc' = [pc EXCEPT ![t] = "done"]
     ELSE /\ pc' = [pc EXCEPT ![t] = "GL_global"]
          /\ UNCHANGED <<ret, returned>>
  /\ UNCHANGED <<loggerMap, globalLogger, heap, configs, writer, op, name, opts, cfg,
                 args, initErr, outcome, sawGlobal, io, constructed, failed,
                 firstOpts, initsOK, calls>>

\* variant: GetLogger passes no options whatever the global logger is
GlobalOpts_NotInherited(g) == <<>>

\* var opts []Option; if globalLogger != nil { opts = append(opts,
\* WithFullConfig(globalLogger.config)) }: the option is handed the pointer
\* and copies the fields out of the object when NewLogger applies it
\* (*c = *config); no code writes to a Config object once a Logger holds
\* it, so the fields copied then are the fields the object has here
GlobalOpts(g) ==
  IF g # Nil THEN <<WithFullConfig(ConfigOf(g))>> ELSE <<>>

\* globalLogger is read without the lock; when it is set its config becomes
\* the only option, and NewLogger(name, opts...) is called
GL_Global(t) ==
  /\ pc[t] = "GL_global"
  /\ UNCHANGED aux
  /\ sawGlobal' = [sawGlobal EXCEPT ![t] = globalLogger]
  /\ opts' = [opts EXCEPT ![t] = GlobalOpts(globalLogger)]
  /\ pc' = [pc EXCEPT ![t] = "NL_lock"]
  /\ UNCHANGED <<loggerMap, globalLogger, heap, configs, writer, readers, op, name, cfg,
                 args, ret, initErr, outcome, io, constructed, failed,
                 returned, firstOpts, initsOK, calls>>

\* Init after NewLogger returned: nil is an error, otherwise the logger
\* becomes the global logger (written without the lock)
IN_Result(t) ==
  /\ pc[t] = "IN_result"
  /\ UNCHANGED aux
  /\ IF InitFails(ret[t])
     THEN /\ initErr' = [initErr EXCEPT ![t] = "error"]
          /\ UNCHANGED <<globalLogger, initsOK>>
     ELSE /\ globalLogger' = ret[t]
          /\ initErr' = [initErr EXCEPT ![t] = "nil"]
          /\ initsOK' = initsOK + 1
  /\ pc' = [pc EXCEPT ![t] = "done"]
  /\ UNCHANGED <<loggerMap, heap, configs, writer, readers, op, name, opts, cfg, args,
                 ret, outcome, sawGlobal, io, constructed, failed, returned,
                 firstOpts, calls>>

Next ==
  \E t \in Threads :
    \/ CallNewLogger(t)
    \/ CallGetLogger(t)
    \/ CallInit(t)
    \/ NL_Lock(t)
    \/ NL_Check(t)
    \/ NL_Build(t)
    \/ GL_RLock(t)
    \/ GL_Check(t)
    \/ GL_Global(t)
    \/ IN_Result(t)

Spec == Init /\ [][Next]_vars

\* a step inside a call a goroutine has started
Step(t) ==
  \/ NL_Lock(t)
  \/ NL_Check(t)
  \/ NL_Build(t)
  \/ GL_RLock(t)
  \/ GL_Check(t)
  \/ GL_Global(t)
  \/ IN_Result(t)

\* the scheduler runs every goroutine that can take a step; a goroutine
\* waiting for loggerMutex can take none
Fairness == \A t \in Threads : WF_vars(Step(t))

\* the calls of the fair program: file output on, so that construction can
\* end on each of its return paths
FairOpts == OptLists[2]

FairCallNewLogger(t) ==
  /\ calls < MaxFairCalls
  /\ \E n \in CallNames : Begin(t, "NewLogger", n, FairOpts, FairOpts, "NL_lock")

FairCallGetLogger(t) == calls < MaxFairCalls /\ CallGetLogger(t)

FairCallInit(t) ==
  /\ calls < MaxFairCalls
  /\ Begin(t, "Init", "", FairOpts,
           <<WithFullConfig(ApplyOpts(DefaultConfig, FairOpts))>>, "NL_lock")

NextFair ==
  \E t \in Threads :
    \/ FairCallNewLogger(t)
    \/ FairCallGetLogger(t)
    \/ FairCallInit(t)
    \/ Step(t)

SpecFair == Init /\ [][NextFair]_vars /\ Fairness

TypeOK ==
  /\ \A n \in Names : loggerMap[n] \in 0..Len(heap)
  /\ globalLogger \in 0..Len(heap)
  /\ writer \in {0} \cup Threads
  /\ readers \subseteq Threads
  /\ \A t \in Threads : ret[t] \in 0..Len(heap)
  /\ \A l \in 1..Len(heap) : heap[l].config \in 1..Len(configs)

(* ------------------- logging and the sequential program ---------------- *)
\* the option lists of the sequential program: no option; file output with
\* the "json" file format, as examples/basic and examples/structured ask for
\* it; a raised level with file output to another path and a file format
\* that names no encoder
CollidingFilename == <<"v","a","r","/","t",".","a",".","l","o","g">>

SeqOptLists ==
  << <<>>,
     <<WithFileRotation(RotationFilename, 1, 1, 3, TRUE),
       WithFileFormat("json")>>,
     <<WithLevel("warn"),
       WithFileRotation(CollidingFilename, 100, 7, 10, FALSE),
       WithFileFormat("yaml")>> >>

\* the log functions; Debugf .. Fatalf delegate the same way as Debug .. Fatal
LogFns == {"Debug", "Info", "Warn", "Error", "Fatal", "Sync"}

\* the zapcore level a log function writes its entry with
FnLevel(fn) ==
  CASE fn = "Debug" -> DebugLevel
    [] fn = "Info"  -> InfoLevel
    [] fn = "Warn"  -> WarnLevel
    [] fn = "Error" -> ErrorLevel
    [] fn = "Fatal" -> FatalLevel

\* variant: the methods test the receiver and return quietly on nil
NilDeref_Guarded(l) == FALSE

\* l.sugar / l.zap on a nil *Logger is a nil pointer dereference
NilDeref(l) == l = Nil

\* zapcore.NewCore(enc, ws, level): the core takes an entry when its level
\* is at least the level the core was built with
CoreEnabled(core, v) == v >= core.level

\* the records the cores of logger l receive for an entry of level v
Emit(l, v) ==
  IF l = Nil THEN {}
  ELSE { [file |-> heap[l].cores[i].filename, from |-> heap[l].name, level |-> v] :
           i \in { j \in DOMAIN heap[l].cores : CoreEnabled(heap[l].cores[j], v) } }

\* the handles the lumberjack writers of logger l hold after an entry of
\* level v: a writer opens its file at the first write and keeps it open
Opened(l, v) ==
  { [file |-> r.file, owner |-> l] : r \in { e \in Emit(l, v) : e.file # <<>> } }

\* one log call through the pointer l: a nil pointer panics; Sync writes
\* nothing; Fatal writes its entry and exits the process
LogCall(t, fn, l, via) ==
  /\ AtRest(t)
  /\ logs.n < MaxLogs
  /\ logs' = [n |-> logs.n + 1, fn |-> fn, via |-> via, logger |-> l]
  /\ IF NilDeref(l)
     THEN halted' = "panic" /\ UNCHANGED <<written, handles>>
     ELSE IF fn = "Sync"
          THEN UNCHANGED <<halted, written, handles>>
          ELSE /\ written' = written \cup Emit(l, FnLevel(fn))
               /\ handles' = handles \cup Opened(l, FnLevel(fn))
               /\ halted' = IF fn = "Fatal" THEN "exit" ELSE halted
  /\ UNCHANGED <<loggerMap, globalLogger, heap, configs, writer, readers, pc, op, name,
                 opts, cfg, args, ret, initErr, outcome, sawGlobal, io,
                 constructed, failed, returned, firstOpts, initsOK, calls,
                 pure>>

\* the package functions Debug .. Fatal, Sync: globalLogger.Debug(args...)
LogGlobal(t) == \E fn \in LogFns : LogCall(t, fn, globalLogger, "global")

\* the methods (*Logger).Debug .. Sync on a logger the caller obtained
LogMethod(t) ==
  \E fn \in LogFns, l \in 1..Len(heap) : LogCall(t, fn, l, "method")

\* the sequential program calls NewLogger(n, opts...)
SeqCallNewLogger(t) ==
  /\ calls < MaxSeqCalls
  /\ \E n \in Names, i \in 1..Len(SeqOptLists) :
       Begin(t, "NewLogger", n, SeqOptLists[i], SeqOptLists[i], "NL_lock")

\* the sequential program calls GetLogger(n)
SeqCallGetLogger(t) ==
  /\ calls < MaxSeqCalls
  /\ \E n \in Names : Begin(t, "GetLogger", n, <<>>, <<>>, "GL_rlock")

\* the sequential program calls Init(opts...)
SeqCallInit(t) ==
  /\ calls < MaxSeqCalls
  /\ \E i \in 1..Len(SeqOptLists) :
       LET config == ApplyOpts(DefaultConfig, SeqOptLists[i]) IN
       Begin(t, "Init", "", SeqOptLists[i], <<WithFullConfig(config)>>, "NL_lock")

\* one goroutine makes registry calls and log calls one after the other,
\* until the process panics or exits
NextSeq ==
  /\ halted = "no"
  /\ LET t == 1 IN
       \/ SeqCallNewLogger(t)
       \/ SeqCallGetLogger(t)
       \/ SeqCallInit(t)
       \/ NL_Lock(t)
       \/ NL_Check(t)
       \/ NL_Build(t)
       \/ GL_RLock(t)
       \/ GL_Check(t)
       \/ GL_Global(t)
       \/ IN_Result(t)
       \/ LogGlobal(t)
       \/ LogMethod(t)

SpecSeq == Init /\ [][NextSeq]_vars

(* ----------------- the pure functions on their own inputs -------------- *)
\* longest base path, in characters, and longest option list
MaxPathLen == 4
MaxOpts == 3

\* base paths: every string over a letter, the dot and the separator, and
\* the default file name
PathChars == {"a", ".", "/"}
PurePaths ==
  UNION { [1..k -> PathChars] : k \in 0..MaxPathLen } \cup {DefaultFilename}
PureNames == {"", "a", "user-service"}

\* level strings: the five names of levelMap and strings it lacks
PureLevels ==
  {"debug", "info", "warn", "error", "fatal",
   "", "DEBUG", "Info", "warning", "trace"}

\* a Config that differs from DefaultConfig in every field
OtherConfig ==
  [ Level        |-> "error",
    Format       |-> "json",
    WriteToFile  |-> TRUE,
    EnableColor  |-> FALSE,
    FileConfig   |-> [ Filename   |-> CollidingFilename,
                       MaxSize    |-> 5,
                       MaxAge     |-> 2,
                       MaxBackups |-> 4,
                       Compress   |-> FALSE,
                       Format     |-> "console" ],
    RecordCaller |-> FALSE,
    TimeFormat   |-> "15:04:05" ]

\* the options a list is drawn from, one or two of every constructor
OptPool ==
  << WithLevel("debug"), WithLevel("warn"), WithFormat("json"),
     WithTimeFormat("15:04"), WithColor(FALSE), WithCaller(FALSE),
     WithFileRotation(RotationFilename, 1, 1, 3, TRUE),
     WithFileFormat("console"), WithFullConfig(OtherConfig) >>
PureOptIdx == UNION { [1..k -> DOMAIN OptPool] : k \in 0..MaxOpts }
\* the option list given by a list of indices into OptPool
OptsAt(idx) == [i \in DOMAIN idx |-> OptPool[idx[i]]]

PureInputs ==
  { [NoPure EXCEPT !.kind = "derive", !.path = p, !.name = n] :
      p \in PurePaths, n \in PureNames }
  \cup { [NoPure EXCEPT !.kind = "level", !.level = l] : l \in PureLevels }
  \cup { [NoPure EXCEPT !.kind = "opts", !.optIdx = x] : x \in PureOptIdx }

InitPure == InitRegistry /\ pure \in PureInputs

notPure ==
  <<loggerMap, globalLogger, heap, configs, writer, readers, pc, op, name, opts, cfg,
    args, ret, initErr, outcome, sawGlobal, io, constructed, failed, returned,
    firstOpts, initsOK, calls, logs, written, halted, handles>>

\* filename[:len(filename)-len(ext)] + "." + name + ext
PureDerive ==
  /\ pure.kind = "derive" /\ ~pure.done
  /\ pure' = [pure EXCEPT !.done = TRUE,
                          !.outPath = DeriveFilename(pure.path, pure.name)]
  /\ UNCHANGED notPure

\* getZapLevel(level)
PureLevel ==
  /\ pure.kind = "level" /\ ~pure.done
  /\ pure' = [pure EXCEPT !.done = TRUE, !.outLevel = getZapLevel(pure.level)]
  /\ UNCHANGED notPure

\* config := DefaultConfig(); for _, opt := range opts { opt(config) }
PureApply ==
  /\ pure.kind = "opts" /\ ~pure.done
  /\ pure' = [pure EXCEPT !.done = TRUE,
                          !.outConfig = ApplyOpts(DefaultConfig,
                                                  OptsAt(pure.optIdx))]
  /\ UNCHANGED notPure

NextPure == PureDerive \/ PureLevel \/ PureApply

SpecPure == InitPure /\ [][NextPure]_vars

(* ------------------------------ properties ----------------------------- *)
\* a goroutine whose last call was Init and has returned
InitDone(t) == op[t] = "Init" /\ pc[t] = "done"
\* the two results of os.MkdirAll / os.OpenFile that stop construction
IOFailures == {"mkdirFail", "openFail"}
\* the Config a caller asked for with the opts it passed
Requested(t) == ApplyOpts(DefaultConfig, args[t])

\* the number of times the construction section of NewLogger has run to its
\* end for name n: the runs that built a Logger and the runs that failed
Executed(n) == constructed[n] + failed[n]

\* a call of NewLogger or GetLogger for name n has returned
CallReturned(n) ==
  \E t \in Threads :
    pc[t] = "done" /\ name[t] = n /\ op[t] \in {"NewLogger", "GetLogger"}

\* C1 as stated: for every name, construction is executed exactly once for
\* the lifetime of the process (the construction count is 1).
C1_Original ==
  \A n \in Names :
    /\ Executed(n) <= 1
    /\ CallReturned(n) => Executed(n) = 1

\* C1 amended: under every interleaving of NewLogger and GetLogger calls for
\* a name, at most one construction ever builds a Logger for the name, and as
\* soon as the name is registered or a caller holds a logger for it, exactly
\* one has; construction runs only while the name is unregistered and no
\* Logger was built for it, by one goroutine at a time; when no construction
\* fails, construction has been executed exactly once after a call for the
\* name returned; every further execution is one that failed and built
\* nothing.
C1_ConstructedOnce ==
  \A n \in Names :
    /\ constructed[n] <= 1
    /\ (loggerMap[n] # Nil \/ returned[n] # {}) => constructed[n] = 1
    /\ \A t \in Threads :
         (pc[t] = "NL_build" /\ name[t] = n)
           => /\ loggerMap[n] = Nil /\ constructed[n] = 0
              /\ \A u \in Threads \ {t} : ~(pc[u] = "NL_build" /\ name[u] = n)
    /\ (CallReturned(n) /\ failed[n] = 0) => Executed(n) = 1
    /\ CallReturned(n) => Executed(n) >= 1

\* two goroutines raced for the same new name after a construction for it
\* had failed: one built it, the other is a GetLogger that missed on the read
\* path and found it under the write lock; construction ran twice and built
\* one Logger
C1_Witness ==
  \E t1, t2 \in Threads :
    /\ t1 # t2 /\ name[t1] = name[t2]
    /\ pc[t1] = "done" /\ pc[t2] = "done"
    /\ outcome[t1] = "built"
    /\ op[t2] = "GetLogger" /\ outcome[t2] = "existing"
    /\ constructed[name[t1]] = 1
    /\ failed[name[t1]] = 1
    /\ Executed(name[t1]) = 2

\* C2: all NewLogger/GetLogger calls for a name that return a logger return
\* the same pointer, which is the registered one, whatever Init calls ran.
C2_SameInstance ==
  /\ \A n \in Names : Cardinality(returned[n]) <= 1
  /\ \A t \in Threads :
       (pc[t] = "done" /\ ret[t] # Nil) => ret[t] = loggerMap[name[t]]

\* a NewLogger("") and a GetLogger("") both returned a logger after an Init
C2_Witness ==
  \E t1, t2 \in Threads :
    /\ t1 # t2 /\ name[t1] = "" /\ name[t2] = ""
    /\ pc[t1] = "done" /\ pc[t2] = "done"
    /\ op[t1] = "NewLogger" /\ op[t2] = "GetLogger"
    /\ ret[t1] # Nil /\ ret[t2] = ret[t1]
    /\ initsOK >= 1

\* the registered Logger of every name still has the Config its first
\* NewLogger built from its opts
C3_ConfigIsFirst ==
  \A n \in Names :
    loggerMap[n] # Nil =>
      ConfigOf(loggerMap[n]) = ApplyOpts(DefaultConfig, firstOpts[n])

\* a NewLogger call that finds its name registered returns the registered
\* pointer and changes neither the registry, nor any Logger, nor a Config
C3_LaterCallStep ==
  \A t \in Threads :
    ( /\ op[t] = "NewLogger" /\ pc[t] = "NL_check" /\ pc'[t] # "NL_check"
      /\ loggerMap[name[t]] # Nil )
    => /\ ret'[t] = loggerMap[name[t]]
       /\ pc'[t] = "done"
       /\ loggerMap' = loggerMap
       /\ heap' = heap
       /\ cfg' = cfg

\* C3: first write wins: once a name is registered, every later
\* NewLogger(n, opts2) returns the registered instance, whose configuration
\* stays the one built from the first opts; opts2 is not applied and the
\* registry is unchanged.
C3_FirstWriteWins == []C3_ConfigIsFirst /\ [][C3_LaterCallStep]_vars

\* a NewLogger returned an existing logger whose Config differs from the one
\* its own opts ask for
C3_Witness ==
  \E t \in Threads :
    /\ op[t] = "NewLogger" /\ pc[t] = "done" /\ outcome[t] = "existing"
    /\ ret[t] # Nil
    /\ ConfigOf(ret[t]) # Requested(t)

\* the step of NewLogger in which MkdirAll or OpenFile fails returns nil,
\* releases the lock and stores nothing
C4_FailureStep ==
  \A t \in Threads :
    (pc[t] = "NL_build" /\ io'[t] \in IOFailures)
    => /\ ret'[t] = Nil
       /\ pc'[t] = AfterNewLogger(t)
       /\ outcome'[t] = "failed"
       /\ writer' = 0
       /\ loggerMap' = loggerMap
       /\ heap' = heap

\* C4: when sink construction fails in NewLogger(n, ...), the call returns
\* nil and the registry is unchanged (n stays absent, other entries are kept);
\* a later call for n runs construction again (see the witness).
C4_FailureLeavesAbsent ==
  /\ [][C4_FailureStep]_vars
  /\ [](\A t \in Threads : (AtRest(t) /\ io[t] \in IOFailures) => ret[t] = Nil)

\* construction of "a" failed once and a later call built and registered it
C4_Witness ==
  /\ failed["a"] = 1
  /\ loggerMap["a"] # Nil
  /\ ConfigOf(loggerMap["a"]).WriteToFile
  /\ constructed["a"] = 1

\* C5 as stated: GetLogger is a pure read, for an unregistered name it
\* reports not-found and never runs construction.
C5_Original ==
  \A t \in Threads :
    op[t] = "GetLogger" =>
      /\ pc[t] # "NL_build"
      /\ outcome[t] # "built"

\* the lookup step of GetLogger changes no Logger and no registry entry; on
\* a hit it returns the registered pointer, on a miss it goes on to NewLogger
C5_LookupStep ==
  \A t \in Threads :
    (pc[t] = "GL_check" /\ pc'[t] # "GL_check")
    => /\ loggerMap' = loggerMap
       /\ heap' = heap
       /\ globalLogger' = globalLogger
       /\ IF loggerMap[name[t]] # Nil
          THEN pc'[t] = "done" /\ ret'[t] = loggerMap[name[t]]
          ELSE pc'[t] = "GL_global" /\ ret'[t] = Nil

\* C5 amended: GetLogger is a pure read only for a registered name; for an
\* unregistered name it does not report not-found but calls NewLogger, and
\* every logger it returns is the registered one.
C5_ReadOnlyWhenRegistered ==
  /\ [][C5_LookupStep]_vars
  /\ [](\A t \in Threads :
          (op[t] = "GetLogger" /\ pc[t] = "done" /\ outcome[t] = "none")
          => (ret[t] # Nil /\ ret[t] = loggerMap[name[t]]))

\* a GetLogger returned a registered logger from the read path
C5_Witness ==
  \E t \in Threads :
    /\ op[t] = "GetLogger" /\ pc[t] = "done"
    /\ outcome[t] = "none" /\ ret[t] # Nil

\* C6 as stated: whenever Init(opts) returns nil the global logger's
\* configuration is DefaultConfig with opts applied.
C6_Original ==
  \A t \in Threads :
    (InitDone(t) /\ initErr[t] = "nil")
    => (globalLogger # Nil /\ ConfigOf(globalLogger) = Requested(t))

\* C6 amended: when Init(opts) returns nil the global logger is the
\* registered anonymous logger; its configuration is DefaultConfig with opts
\* applied when this Init built it, and the configuration of its first
\* creation when the empty name was registered before.
C6_InitConfig ==
  \A t \in Threads :
    (InitDone(t) /\ initErr[t] = "nil")
    => /\ globalLogger # Nil
       /\ globalLogger = ret[t]
       /\ outcome[t] \in {"built", "existing"}
       /\ outcome[t] = "built" => ConfigOf(globalLogger) = Requested(t)
       /\ outcome[t] = "existing" =>
            ConfigOf(globalLogger) = ApplyOpts(DefaultConfig, firstOpts[""])

\* one Init built the global logger with file rotation, another Init with
\* other opts returned nil and left that configuration in place
C6_Witness ==
  \E t1, t2 \in Threads :
    /\ InitDone(t1) /\ initErr[t1] = "nil" /\ outcome[t1] = "built"
    /\ ConfigOf(globalLogger).WriteToFile
    /\ ConfigOf(globalLogger).FileConfig.Format = "console"
    /\ InitDone(t2) /\ initErr[t2] = "nil" /\ outcome[t2] = "existing"
    /\ ConfigOf(globalLogger) # Requested(t2)

\* C7 as stated: a successful Init after an earlier successful Init installs
\* a newly built instance as the global default.
C7_Original ==
  [][\A t \in Threads :
       ( /\ pc[t] = "IN_result" /\ pc'[t] = "done" /\ initErr'[t] = "nil"
         /\ globalLogger # Nil )
       => (globalLogger' # globalLogger /\ outcome[t] = "built")]_vars

\* C7 amended: a successful Init after an earlier successful Init does not
\* rebuild: its NewLogger returned the instance that is already the global
\* default, an Init whose NewLogger runs once the default is set builds
\* nothing, and the registry entry and the global default keep that instance.
C7_InitAgainKeepsInstance ==
  [][\A t \in Threads :
       /\ ( /\ pc[t] = "IN_result" /\ pc'[t] = "done" /\ initErr'[t] = "nil"
            /\ globalLogger # Nil )
          => /\ ret[t] = globalLogger
             /\ globalLogger' = globalLogger
             /\ loggerMap'[""] = globalLogger
             /\ heap' = heap
             /\ constructed'[""] = 1
       /\ ( /\ op[t] = "Init" /\ pc[t] = "NL_check" /\ pc'[t] # "NL_check"
            /\ globalLogger # Nil )
          => /\ outcome'[t] = "existing"
             /\ ret'[t] = globalLogger
             /\ loggerMap' = loggerMap
             /\ heap' = heap]_vars

\* a second Init returned nil without building anything
C7_Witness ==
  /\ initsOK >= 2
  /\ constructed[""] = 1
  /\ \E t \in Threads :
       InitDone(t) /\ initErr[t] = "nil" /\ outcome[t] = "existing"

\* C8: once the global default is set, no later operation changes its value.
C8_GlobalSetOnce == [][globalLogger # Nil => globalLogger' = globalLogger]_vars

\* the global default was assigned by two Init calls and a NewLogger or
\* GetLogger call has returned as well
C8_Witness ==
  /\ initsOK >= 2
  /\ globalLogger # Nil
  /\ \E t \in Threads : op[t] \in {"NewLogger", "GetLogger"} /\ pc[t] = "done"

\* C9: whenever the global default is set, the registry has an entry for the
\* empty name and the global default is that instance.
C9_GlobalInRegistry ==
  globalLogger # Nil => (loggerMap[""] # Nil /\ loggerMap[""] = globalLogger)

\* the global default is set while another name is registered too
C9_Witness ==
  /\ globalLogger # Nil
  /\ loggerMap["a"] # Nil
  /\ loggerMap["a"] # globalLogger

\* the result of a returned Init: an error exactly when its construction
\* failed, and a set global default when it returned nil
C10_InitResult ==
  \A t \in Threads :
    InitDone(t) =>
      /\ initErr[t] \in {"nil", "error"}
      /\ initErr[t] = "error" <=> io[t] \in IOFailures
      /\ initErr[t] = "error" => (ret[t] = Nil /\ outcome[t] = "failed")
      /\ initErr[t] = "nil" => globalLogger # Nil

\* the step in which the construction run by Init fails and the step in
\* which Init returns its error change neither the global default nor the
\* registry
C10_ErrorStep ==
  \A t \in Threads :
    \/ pc[t] = "IN_result" /\ pc'[t] = "done" /\ initErr'[t] = "error"
    \/ op[t] = "Init" /\ pc[t] = "NL_build" /\ io'[t] \in IOFailures
    => (globalLogger' = globalLogger /\ loggerMap' = loggerMap /\ heap' = heap)

\* C10: Init returns an error exactly when construction of the anonymous
\* logger fails; the failing call leaves the global default and the registry
\* as they were; when Init returns nil the global default is non-nil.
C10_InitError == []C10_InitResult /\ [][C10_ErrorStep]_vars

\* an Init returned an error, the global default is still unset and the
\* empty name still absent
C10_Witness ==
  \E t \in Threads :
    /\ InitDone(t) /\ initErr[t] = "error"
    /\ globalLogger = Nil
    /\ loggerMap[""] = Nil

\* the fields of a Config, FileConfig flattened
Fields ==
  {"Level", "Format", "WriteToFile", "EnableColor", "RecordCaller",
   "TimeFormat", "Filename", "MaxSize", "MaxAge", "MaxBackups", "Compress",
   "FileFormat"}
FileFields ==
  {"Filename", "MaxSize", "MaxAge", "MaxBackups", "Compress", "FileFormat"}

\* the value of a field of a Config
Field(c, f) ==
  CASE f = "Level"        -> c.Level
    [] f = "Format"       -> c.Format
    [] f = "WriteToFile"  -> c.WriteToFile
    [] f = "EnableColor"  -> c.EnableColor
    [] f = "RecordCaller" -> c.RecordCaller
    [] f = "TimeFormat"   -> c.TimeFormat
    [] f = "Filename"     -> c.FileConfig.Filename
    [] f = "MaxSize"      -> c.FileConfig.MaxSize
    [] f = "MaxAge"       -> c.FileConfig.MaxAge
    [] f = "MaxBackups"   -> c.FileConfig.MaxBackups
    [] f = "Compress"     -> c.FileConfig.Compress
    [] f = "FileFormat"   -> c.FileConfig.Format

\* the fields an option assigns
Sets(opt) ==
  CASE opt.kind = "WithLevel"        -> {"Level"}
    [] opt.kind = "WithFormat"       -> {"Format"}
    [] opt.kind = "WithTimeFormat"   -> {"TimeFormat"}
    [] opt.kind = "WithColor"        -> {"EnableColor"}
    [] opt.kind = "WithCaller"       -> {"RecordCaller"}
    [] opt.kind = "WithFileRotation" -> {"WriteToFile"} \cup FileFields
    [] opt.kind = "WithFileFormat"   -> {"FileFormat"}
    [] opt.kind = "WithFullConfig"   -> Fields

\* the fields no option of a list assigns
Unset(os) == Fields \ UNION { Sets(os[i]) : i \in DOMAIN os }

\* the single goroutine of the sequential program returned from a call of o
SeqDone(o) == op[1] = o /\ pc[1] = "done"

\* C11: a free-function log call (Debug .. Fatal, their formatted variants,
\* Sync) made while no Init has succeeded dereferences the nil global logger:
\* the process panics and no sink receives a record.
C11_PanicBeforeInit ==
  [][(logs'.n = logs.n + 1 /\ logs'.via = "global" /\ initsOK = 0)
     => (halted' = "panic" /\ written' = written /\ globalLogger = Nil)]_vars

\* a named logger is registered, no Init has succeeded, and a free-function
\* log call has panicked
C11_Witness ==
  /\ halted = "panic"
  /\ logs.via = "global"
  /\ initsOK = 0
  /\ loggerMap["a"] # Nil
  /\ written = {}

\* C12: when a successful Init has completed before GetLogger(n) is called
\* and the call creates the logger for n, the new logger's configuration
\* equals the global logger's field by field, and it is held in a Config
\* object of its own: the new logger's config pointer differs from the
\* global logger's and from that of every other Logger.
C12_InheritsGlobal ==
  (SeqDone("GetLogger") /\ outcome[1] = "built")
  => /\ initsOK >= 1 => (globalLogger # Nil /\ sawGlobal[1] = globalLogger)
     /\ sawGlobal[1] # Nil =>
          /\ ret[1] # sawGlobal[1]
          /\ heap[ret[1]].config # heap[sawGlobal[1]].config
          /\ \A f \in Fields :
               Field(ConfigOf(ret[1]), f) = Field(ConfigOf(sawGlobal[1]), f)
     /\ \A l \in 1..Len(heap) :
          l # ret[1] => heap[l].config # heap[ret[1]].config

\* Init succeeded with file output, then GetLogger("a") built a logger: it
\* has the global logger's fields in a second Config object
C12_Witness ==
  /\ SeqDone("GetLogger") /\ outcome[1] = "built" /\ name[1] = "a"
  /\ initsOK >= 1
  /\ sawGlobal[1] = globalLogger
  /\ heap[ret[1]].config # heap[globalLogger].config
  /\ ConfigOf(ret[1]) = ConfigOf(globalLogger)
  /\ ConfigOf(ret[1]).WriteToFile
  /\ ConfigOf(ret[1]).FileConfig.Filename = RotationFilename
  /\ ConfigOf(ret[1]) # DefaultConfig

\* C13 as stated: a logger created by NewLogger(n, opts) while a global
\* logger exists takes every field opts does not set from the global config.
C13_Original ==
  (SeqDone("NewLogger") /\ outcome[1] = "built" /\ globalLogger # Nil)
  => \A f \in Unset(args[1]) :
       Field(ConfigOf(ret[1]), f) = Field(ConfigOf(globalLogger), f)

\* C13 amended: a logger created by NewLogger(n, opts) takes every field
\* opts does not set from DefaultConfig, whether or not a global logger
\* exists; only GetLogger passes the global config on.
C13_UnsetFieldsAreBuiltin ==
  (SeqDone("NewLogger") /\ outcome[1] = "built")
  => \A f \in Unset(args[1]) :
       Field(ConfigOf(ret[1]), f) = Field(DefaultConfig, f)

\* NewLogger created a logger with some options while the global config
\* differs from the defaults in a field those options leave alone
C13_Witness ==
  /\ SeqDone("NewLogger") /\ outcome[1] = "built"
  /\ globalLogger # Nil
  /\ args[1] # <<>>
  /\ \E f \in Unset(args[1]) :
       Field(ConfigOf(globalLogger), f) # Field(DefaultConfig, f)

\* the position of the last ch in a path, 0 when there is none
LastIndex(path, ch) ==
  LET at == {i \in DOMAIN path : path[i] = ch}
  IN IF at = {} THEN 0 ELSE CHOOSE i \in at : \A j \in at : j <= i

\* where the extension of a path starts: at the last dot when it lies in the
\* last path element, past the end otherwise
ExtStart(path) ==
  IF LastIndex(path, ".") > LastIndex(path, "/")
  THEN LastIndex(path, ".") ELSE Len(path) + 1

\* C14: for every base path and logger name, a non-empty name gives the base
\* path with "." + name inserted immediately before the extension of the last
\* path element (appended when that element has none), an empty name gives
\* the base path itself; ("logs/app.log", "user-service") gives
\* "logs/app.user-service.log".
C14_DerivedPath ==
  (pure.kind = "derive" /\ pure.done)
  => /\ pure.name = "" => pure.outPath = pure.path
     /\ pure.name # "" =>
          pure.outPath =
            SubSeq(pure.path, 1, ExtStart(pure.path) - 1)
              \o <<".", pure.name>>
              \o SubSeq(pure.path, ExtStart(pure.path), Len(pure.path))
     /\ (pure.path = DefaultFilename /\ pure.name = "user-service") =>
          pure.outPath = <<"l","o","g","s","/","a","p","p",".",
                           "user-service",".","l","o","g">>

\* a name was inserted into a path whose only dot is in a directory name
C14_Witness ==
  /\ pure.kind = "derive" /\ pure.done
  /\ pure.path = <<"a", ".", "/", "a">>
  /\ pure.name = "user-service"
  /\ pure.outPath = <<"a", ".", "/", "a", ".", "user-service">>

\* the level names levelMap holds, in the order of the claim
LevelNames == <<"debug", "info", "warn", "error", "fatal">>

\* C16: the level resolver is total and deterministic: debug, info, warn,
\* error, fatal resolve to strictly increasing severities in that order, and
\* every other string (the empty string, other casings) resolves to info.
C16_LevelResolver ==
  /\ \A i, j \in DOMAIN LevelNames :
       i < j => getZapLevel(LevelNames[i]) < getZapLevel(LevelNames[j])
  /\ (pure.kind = "level" /\ pure.done)
     => /\ pure.outLevel \in {DebugLevel, InfoLevel, WarnLevel, ErrorLevel,
                              FatalLevel}
        /\ pure.outLevel = getZapLevel(pure.level)
        /\ (\A i \in DOMAIN LevelNames : pure.level # LevelNames[i])
             => pure.outLevel = InfoLevel

\* an upper-case level name was resolved, to info
C16_Witness ==
  /\ pure.kind = "level" /\ pure.done
  /\ pure.level = "DEBUG"
  /\ pure.outLevel = InfoLevel

\* the value an option writes to a field it sets
Written(opt, f) ==
  CASE opt.kind = "WithFullConfig" -> Field(opt.arg, f)
    [] opt.kind = "WithFileRotation" ->
         IF f = "WriteToFile" THEN TRUE
         ELSE Field([DefaultConfig EXCEPT !.FileConfig = opt.arg], f)
    [] OTHER -> opt.arg

\* the value of a field after a list of options: the one written by the last
\* option that sets the field, the default when no option does
LastWritten(os, f) ==
  LET at == {i \in DOMAIN os : f \in Sets(os[i])}
  IN IF at = {} THEN Field(DefaultConfig, f)
     ELSE Written(os[CHOOSE i \in at : \A j \in at : j <= i], f)

\* C19: for every sequence of options applied in order to DefaultConfig, each
\* field ends with the value written by the last option that sets it, and a
\* WithFullConfig option replaces every field at once: the options before it
\* have no effect, the options after it override it.
C19_LastWriterWins ==
  (pure.kind = "opts" /\ pure.done)
  => LET os == OptsAt(pure.optIdx)
     IN /\ \A f \in Fields : Field(pure.outConfig, f) = LastWritten(os, f)
        /\ \A k \in DOMAIN os :
             os[k].kind = "WithFullConfig" =>
               pure.outConfig =
                 ApplyOpts(os[k].arg, SubSeq(os, k + 1, Len(os)))

\* WithLevel("debug"), then WithFullConfig, then WithLevel("warn") was applied
C19_Witness ==
  /\ pure.kind = "opts" /\ pure.done
  /\ pure.optIdx = <<1, 9, 2>>
  /\ pure.outConfig = [OtherConfig EXCEPT !.Level = "warn"]

\* the loggers built so far, and the file of one that writes to a file
Loggers == 1..Len(heap)
HasFile(l) == Len(heap[l].cores) = 2
FileOf(l) == heap[l].cores[2].filename

\* C15: two loggers with different names built from the same configuration
\* (the anonymous logger and a named one included) have different file
\* paths, and no record emitted through one is written to the other's file.
C15_SeparateFiles ==
  \A l1, l2 \in Loggers :
    (/\ heap[l1].name # heap[l2].name
     /\ ConfigOf(l1) = ConfigOf(l2)
     /\ HasFile(l1) /\ HasFile(l2))
    => /\ FileOf(l1) # FileOf(l2)
       /\ \A r \in written : r.from = heap[l1].name => r.file # FileOf(l2)

\* Init with file rotation, GetLogger("a") inheriting that configuration,
\* and a record written through "a" to the file of "a"
C15_Witness ==
  /\ globalLogger # Nil /\ loggerMap["a"] # Nil
  /\ ConfigOf(loggerMap["a"]) = ConfigOf(globalLogger)
  /\ HasFile(globalLogger) /\ HasFile(loggerMap["a"])
  /\ \E r \in written :
       /\ r.from = "a"
       /\ r.file = FileOf(loggerMap["a"])
       /\ r.file # FileOf(globalLogger)

\* the record a core of a logger holds once it accepted an entry of a level
RecordOf(l, i, v) ==
  [file |-> heap[l].cores[i].filename, from |-> heap[l].name, level |-> v]

\* C17: after a log call on a logger, every sink of the logger (console and
\* file) holds the record exactly when the record's severity is at or above
\* the severity resolved from the logger's configured level; at threshold
\* warn, debug and info are dropped and warn, error, fatal are accepted.
C17_SeverityFilter ==
  (logs.n >= 1 /\ logs.logger # Nil /\ logs.fn # "Sync")
  => LET l == logs.logger
         v == FnLevel(logs.fn)
     IN /\ \A i \in DOMAIN heap[l].cores :
             RecordOf(l, i, v) \in written
               <=> v >= getZapLevel(ConfigOf(l).Level)
        /\ ConfigOf(l).Level = "warn" =>
             \A i \in DOMAIN heap[l].cores :
               RecordOf(l, i, v) \in written
                 <=> logs.fn \in {"Warn", "Error", "Fatal"}

\* Info was called on a logger with level warn and a file sink: no sink
\* holds a record
C17_Witness ==
  /\ logs.n >= 1 /\ logs.logger # Nil /\ logs.fn = "Info"
  /\ ConfigOf(logs.logger).Level = "warn"
  /\ HasFile(logs.logger)
  /\ written = {}
  /\ halted = "no"

\* C18: the file sink of every logger uses the JSON encoder exactly when the
\* configured file format is "json" and the console encoder for every other
\* string, and construction fails only on a failed directory or file
\* operation, never on the format.
C18_EncoderSelection ==
  /\ \A l \in Loggers :
       HasFile(l) =>
         /\ heap[l].cores[2].encoder = "json"
              <=> ConfigOf(l).FileConfig.Format = "json"
         /\ ConfigOf(l).FileConfig.Format # "json"
              => heap[l].cores[2].encoder = "console"
  /\ (pc[1] = "done" /\ outcome[1] = "failed") => io[1] \in IOFailures

\* one logger was built with the file format "json" and has the JSON
\* encoder on its file sink, another with "yaml" and has the console encoder
C18_Witness ==
  \E l1, l2 \in Loggers :
    /\ HasFile(l1)
    /\ ConfigOf(l1).FileConfig.Format = "json"
    /\ heap[l1].cores[2].encoder = "json"
    /\ HasFile(l2)
    /\ ConfigOf(l2).FileConfig.Format = "yaml"
    /\ heap[l2].cores[2].encoder = "console"

\* C20: the registry never evicts: a registered name stays registered and
\* keeps its instance in every step, so the set of registered names only grows.
C20_NeverEvicts ==
  [][\A n \in Names : loggerMap[n] # Nil => loggerMap'[n] = loggerMap[n]]_vars

\* the first logger built is still registered under "a" after three calls
\* and the construction of a second logger
C20_Witness ==
  /\ loggerMap["a"] = 1
  /\ loggerMap[""] = 2
  /\ calls >= 3
  /\ \A t \in Threads : pc[t] = "done" \/ pc[t] = "idle"

\* C21: with file output enabled, construction creates the directory and
\* opens the file before the file sink exists, and fails at construction
\* time when either step fails: the call returns nil (Init an error), nothing
\* is registered, and a logger with a file sink exists only when both steps
\* succeeded.
C21_FailsAtConstruction ==
  /\ (outcome[1] = "built" /\ HasFile(ret[1])) => io[1] = "ok"
  /\ io[1] \in IOFailures =>
       /\ outcome[1] = "failed"
       /\ ret[1] = Nil
       /\ loggerMap[name[1]] = Nil
       /\ IF op[1] = "GetLogger"
          THEN sawGlobal[1] # Nil /\ ConfigOf(sawGlobal[1]).WriteToFile
          ELSE Requested(1).WriteToFile
       /\ InitDone(1) => initErr[1] = "error"
  /\ \A l \in Loggers : HasFile(l) => loggerMap[heap[l].name] = l
  /\ \A r \in written : r.file # <<>> =>
       \E l \in Loggers : HasFile(l) /\ FileOf(l) = r.file /\ loggerMap[r.from] = l

\* NewLogger("a") with file rotation returned nil because the log file could
\* not be opened; "a" is not registered
C21_Witness ==
  /\ SeqDone("NewLogger") /\ name[1] = "a"
  /\ io[1] = "openFail"
  /\ ret[1] = Nil
  /\ loggerMap["a"] = Nil

\* C22: after two successful Init calls every open file handle is held by
\* the writer of a registered logger, and a handle on the anonymous logger's
\* file is held by the current global logger: nothing opened by the first
\* Init is left open and unreferenced.
C22_NoLeakAfterReinit ==
  initsOK >= 2 =>
    \A h \in handles :
      /\ h.owner # Nil
      /\ loggerMap[heap[h.owner].name] = h.owner
      /\ heap[h.owner].name = "" => h.owner = globalLogger

\* Init succeeded twice with file output and the global logger wrote a
\* record: its writer holds the only handle
C22_Witness ==
  /\ initsOK = 2
  /\ globalLogger # Nil /\ HasFile(globalLogger)
  /\ handles = {[file |-> FileOf(globalLogger), owner |-> globalLogger]}

\* the goroutines building a Logger for a name, and the phase of a name
Constructing(n) == {t \in Threads : pc[t] = "NL_build" /\ name[t] = n}
Phase(n) ==
  IF loggerMap[n] # Nil THEN "ready"
  ELSE IF Constructing(n) # {} THEN "constructing"
  ELSE "absent"

\* construction runs under the exclusive lock, by one goroutine at a time and
\* only for an absent name; whoever holds the read lock sees no construction
\* in progress; every registered instance is fully built
C23_UnderLock ==
  /\ \A t \in Threads : pc[t] \in {"NL_check", "NL_build"} => writer = t
  /\ \A t \in Threads : pc[t] = "NL_build" => loggerMap[name[t]] = Nil
  /\ Cardinality({t \in Threads : pc[t] = "NL_build"}) <= 1
  /\ readers # {} => (writer = 0 /\ \A t \in Threads : pc[t] # "NL_build")
  /\ \A n \in Names :
       loggerMap[n] # Nil =>
         heap[loggerMap[n]] = MakeLogger(n, heap[loggerMap[n]].config, ConfigOf(loggerMap[n]))

\* the phase changes of the claim as stated: forward only
C23_ForwardStep ==
  \A n \in Names :
    Phase(n)' # Phase(n) =>
      \/ Phase(n) = "absent" /\ Phase(n)' = "constructing"
      \/ Phase(n) = "constructing" /\ Phase(n)' = "ready"

\* C23 as stated: a name moves only absent -> constructing -> ready, with
\* construction under the exclusive lock.
C23_Original == []C23_UnderLock /\ [][C23_ForwardStep]_vars

\* the phase changes of the code: a construction that fails on the
\* directory or the file takes the name back to absent
C23_PhaseStep ==
  \A n \in Names :
    Phase(n)' # Phase(n) =>
      \/ Phase(n) = "absent" /\ Phase(n)' = "constructing"
      \/ Phase(n) = "constructing" /\ Phase(n)' = "ready"
      \/ /\ Phase(n) = "constructing" /\ Phase(n)' = "absent"
         /\ failed'[n] = failed[n] + 1
         /\ \E t \in Constructing(n) : io'[t] \in IOFailures /\ ret'[t] = Nil

\* C23 amended: a name moves absent -> constructing -> ready, or from
\* constructing back to absent when the construction fails on file I/O; ready
\* is never reached from absent directly and never left; construction runs
\* entirely under the exclusive lock, by at most one goroutine at a time,
\* and no reader sees a name whose instance is not fully built.
C23_PhasesUnderLock == []C23_UnderLock /\ [][C23_PhaseStep]_vars

\* one goroutine is building "a" under the write lock while another waits
\* for the lock to build the same name, after a construction of "a" failed
C23_Witness ==
  /\ Phase("a") = "constructing"
  /\ failed["a"] >= 1
  /\ \E t \in Threads : pc[t] = "NL_lock" /\ name[t] = "a" /\ writer # t

\* the double check of a GetLogger caller: it missed on the read path, took
\* the write lock, and finds the name registered by another caller
C24_RecheckStep ==
  \A t \in Threads :
    (/\ op[t] = "GetLogger"
     /\ pc[t] = "NL_check"
     /\ loggerMap[name[t]] # Nil
     /\ pc'[t] # pc[t])
    => /\ ret'[t] = loggerMap[name[t]]
       /\ pc'[t] = "done"
       /\ outcome'[t] = "existing"
       /\ writer' = 0
       /\ UNCHANGED <<loggerMap, heap, configs, constructed, globalLogger>>

\* C24: a GetLogger(n) caller that found n absent on the read path and takes
\* the exclusive lock after another caller registered n returns the
\* registered instance, without constructing and without overwriting the
\* registry entry.
C24_DoubleChecked ==
  /\ [](\A t \in Threads :
          (op[t] = "GetLogger" /\ pc[t] = "done" /\ outcome[t] = "existing")
          => (ret[t] = loggerMap[name[t]] /\ ret[t] # Nil
              /\ constructed[name[t]] = 1))
  /\ [][C24_RecheckStep]_vars

\* GetLogger("a") returned from the re-check under the write lock with the
\* instance another goroutine built for "a"
C24_Witness ==
  \E t, u \in Threads :
    /\ t # u
    /\ op[t] = "GetLogger" /\ pc[t] = "done" /\ outcome[t] = "existing"
    /\ name[t] = "a" /\ ret[t] = loggerMap["a"]
    /\ name[u] = "a" /\ outcome[u] = "built" /\ ret[u] = ret[t]

\* the call in progress is a NewLogger or GetLogger for a registered name
OnReadyName ==
  /\ op[1] \in {"NewLogger", "GetLogger"}
  /\ ~AtRest(1)
  /\ loggerMap[name[1]] # Nil

\* C25 as stated: a NewLogger or GetLogger call for a name that is already
\* registered never holds the exclusive lock.
C25_Original == OnReadyName => writer = 0

\* a step of a NewLogger or GetLogger call for a registered name: nothing is
\* built or stored, GetLogger stays on the read path, and NewLogger takes and
\* releases the write lock
C25_ReadyStep ==
  (OnReadyName /\ pc'[1] # pc[1])
  => /\ UNCHANGED <<loggerMap, globalLogger, heap, configs, constructed>>
     /\ pc'[1] = "done" => (ret'[1] = loggerMap[name[1]] /\ writer' = 0
                            /\ readers' = {})
     /\ op[1] = "GetLogger" =>
          (pc[1] \in {"GL_rlock", "GL_check"} /\ writer' = 0)
     /\ op[1] = "NewLogger" =>
          (pc[1] \in {"NL_lock", "NL_check"} /\ readers' = {}
           /\ (pc[1] = "NL_lock" => writer' = 1))

\* C25 amended: a GetLogger call for a name that is already registered
\* returns the instance on the read path, holding only the read lock; a
\* NewLogger call for such a name takes the exclusive lock, finds the entry
\* and releases the lock; neither runs construction, and both leave the
\* registry and the global logger unchanged.
C25_ReadyNameUnchanged ==
  /\ []((op[1] = "GetLogger" /\ writer = 1) => loggerMap[name[1]] = Nil)
  /\ [][C25_ReadyStep]_vars

\* NewLogger("a") holds the write lock although "a" is registered
C25_Witness ==
  /\ op[1] = "NewLogger" /\ name[1] = "a"
  /\ pc[1] = "NL_check"
  /\ writer = 1
  /\ loggerMap["a"] # Nil

\* a goroutine holds loggerMutex, for writing or for reading
HoldsLock(t) == writer = t \/ t \in readers

\* the next statement of a goroutine reads or writes loggerMap: the lookups
\* of NewLogger and GetLogger, and the store after construction
AccessesMap(t) == pc[t] \in {"NL_check", "NL_build", "GL_check"}
WritesMap(t) == pc[t] = "NL_build"

\* the next statement of a goroutine writes globalLogger (Init, after a
\* non-nil NewLogger result) or reads it (GetLogger, after a miss)
WritesGlobal(t) == pc[t] = "IN_result" /\ ~InitFails(ret[t])
ReadsGlobal(t) == pc[t] = "GL_global"

\* C26: every access to shared mutable state is made while holding the
\* reader/writer lock: in no reachable state is one goroutine about to write
\* the registry or the global logger while another is about to read or write
\* the same variable, unless the lock orders them.
C26_AccessesUnderLock ==
  /\ \A t \in Threads : AccessesMap(t) => HoldsLock(t)
  /\ \A t \in Threads : WritesMap(t) => writer = t
  /\ \A t, u \in Threads :
       (t # u /\ WritesGlobal(t) /\ (ReadsGlobal(u) \/ WritesGlobal(u)))
       => (HoldsLock(t) /\ HoldsLock(u))

\* the lock is held only between its acquisition and its release inside one
\* call: never by a goroutine between calls, never by Init after NewLogger
\* returned, and GetLogger does not hold the read lock when it asks for the
\* write lock; with no call in progress the lock is free
C27_Released ==
  /\ \A t \in Threads :
       HoldsLock(t) => pc[t] \in {"NL_check", "NL_build", "GL_check"}
  /\ \A t \in Threads : pc[t] \in {"GL_global", "NL_lock"} => t \notin readers
  /\ (\A t \in Threads : AtRest(t)) => (writer = 0 /\ readers = {})

\* C27: every return path of NewLogger and GetLogger releases the lock it
\* took, GetLogger never holds the read lock while requesting the exclusive
\* lock, and under fair scheduling every NewLogger, GetLogger and Init call
\* eventually returns, with the lock free whenever no call is in progress.
C27_ReleasesAndReturns ==
  /\ []C27_Released
  /\ \A t \in Threads : (~AtRest(t)) ~> (pc[t] = "done")

\* every goroutine has returned, one of them a GetLogger that missed on the
\* read path and found the entry under the write lock, and the lock is free
C27_Witness ==
  /\ \A t \in Threads : pc[t] = "done"
  /\ writer = 0 /\ readers = {}
  /\ \E t, u \in Threads :
       /\ op[t] = "GetLogger" /\ outcome[t] = "existing"
       /\ outcome[u] = "built" /\ ret[u] = ret[t]

\* no option after position j of a list writes the file format
FormatStaysAfter(os, j) ==
  \A k \in DOMAIN os : k > j => "FileFormat" \notin Sets(os[k])

\* C28: WithFileRotation replaces the whole FileConfig and sets its format
\* to "json": a WithFileFormat(f) before it is lost, a WithFileFormat(f)
\* after it gives format f with the rotation's other fields, and for f other
\* than "json" the two orders give different configurations.
C28_RotationResetsFormat ==
  (pure.kind = "opts" /\ pure.done)
  => LET os == OptsAt(pure.optIdx)
         fc == pure.outConfig.FileConfig
     IN /\ \A i, j \in DOMAIN os :
             (/\ i < j /\ FormatStaysAfter(os, j)
              /\ os[i].kind = "WithFileFormat"
              /\ os[j].kind = "WithFileRotation")
             => (fc = os[j].arg /\ fc.Format = "json"
                 /\ pure.outConfig.WriteToFile)
        /\ \A i, j \in DOMAIN os :
             (/\ i < j /\ FormatStaysAfter(os, j)
              /\ os[i].kind = "WithFileRotation"
              /\ os[j].kind = "WithFileFormat")
             => fc.Format = os[j].arg
        /\ (/\ Len(os) = 2
            /\ os[1].kind = "WithFileRotation"
            /\ os[2].kind = "WithFileFormat")
           => /\ fc = [os[1].arg EXCEPT !.Format = os[2].arg]
              /\ os[2].arg # "json" =>
                   pure.outConfig # ApplyOpts(DefaultConfig, <<os[2], os[1]>>)

\* WithFileFormat("console") and then WithFileRotation were applied: the file
\* format is "json"
C28_Witness ==
  /\ pure.kind = "opts" /\ pure.done
  /\ pure.optIdx = <<8, 7>>
  /\ pure.outConfig.FileConfig.Format = "json"
  /\ ApplyOpts(DefaultConfig, <<OptPool[7], OptPool[8]>>).FileConfig.Format
       = "console"
====
